---------------------------- MODULE Spec2Model ----------------------------
(***************************************************************************)
(* drf_roles/mixins.py: RoleViewSetMixin and PermissionViewSetMixin.       *)
(*                                                                         *)
(* A name (group, role, permission) is a sequence of characters, an        *)
(* operation name a one-token sequence, and "{}_for_{}".format(fn, x) the  *)
(* concatenation fn \o <<"_for_">> \o x.  One request is one step: the     *)
(* wrapper installed on the mixin type runs to its end (Dispatch), the     *)
(* host framework takes the result (Respond), and between requests the     *)
(* identity store may change what the caller belongs to or may do.         *)
(***************************************************************************)
EXTENDS Naturals, Sequences, FiniteSets

VARIABLES
    _viewset_method_registry, \* class attribute: set of operation names
    _role_groups,             \* RoleViewSetMixin._role_groups
    role_dict,                \* RoleViewSetMixin namespace: name -> closure
    _permissions,             \* PermissionViewSetMixin._permissions (a list)
    mixin_dict,               \* PermissionViewSetMixin namespace: name -> closure
    attrs,                    \* handler names the concrete resource defines
    user_groups,              \* names of request.user.groups.all()
    user_perms,               \* permissions p with request.user.has_perm(p)
    ninits,                   \* PermissionViewSetMixin instances constructed
    pc,                       \* "idle" | "returned"
    request,                  \* the operation invoked and its arguments
    invoked,                  \* the handlers the invocation called, in order
    outcome,                  \* what the invocation gave its caller
    last_role                 \* history: what _get_role gave the request before

vars == <<_viewset_method_registry, _role_groups, role_dict, _permissions,
          mixin_dict, attrs, user_groups, user_perms, ninits, pc, request,
          invoked, outcome, last_role>>

-----------------------------------------------------------------------------
(* Bounds of the model *)

\* the caller belongs to at most this many groups
MaxUserGroups == 2
\* ROLE_GROUPS / the identity store holds at most this many groups at startup
MaxRoleGroups == 2
\* the permission catalog holds at most this many entries
MaxPermissions == 2
\* PermissionViewSetMixin instances constructed in one run
MaxInits == 2

-----------------------------------------------------------------------------
(* Names *)

admin  == <<"a", "d", "m", "i", "n">>
Admin  == <<"A", "d", "m", "i", "n">>
viewer == <<"v", "i", "e", "w", "e", "r">>
GroupNames == {admin, Admin, viewer}

can_edit == <<"c", "a", "n", "_", "e", "d", "i", "t">>
can_view == <<"c", "a", "n", "_", "v", "i", "e", "w">>
PermissionNames == {can_edit, can_view}

get_queryset         == <<"get_queryset">>
get_serializer_class == <<"get_serializer_class">>
perform_create       == <<"perform_create">>
perform_update       == <<"perform_update">>
perform_destroy      == <<"perform_destroy">>

DEFAULT_REGISTRY ==
    {get_queryset, get_serializer_class, perform_create, perform_update,
     perform_destroy}

\* a setting of django.conf.settings: <<>> when absent, else <<value>>
Unset == <<>>

\* values of settings.VIEWSET_METHOD_REGISTRY
RegistrySettings ==
    {Unset, <<{get_queryset}>>, <<{get_queryset, perform_update}>>}

\* arguments a request passes to the operation
Args == {<<>>, <<"obj">>}

\* what a handler's body does when called: it returns, or raises this error
Behaviours == {"return", "AttributeError", "RoleError", "ValueError"}

UpperCase == <<"A", "B", "C", "D", "E", "F", "G", "H", "I", "J", "K", "L", "M",
               "N", "O", "P", "Q", "R", "S", "T", "U", "V", "W", "X", "Y", "Z">>
LowerCase == <<"a", "b", "c", "d", "e", "f", "g", "h", "i", "j", "k", "l", "m",
               "n", "o", "p", "q", "r", "s", "t", "u", "v", "w", "x", "y", "z">>

\* str.lower() on the upper-case letters
ToLower ==
    [c \in {UpperCase[i] : i \in DOMAIN UpperCase} |->
        LowerCase[CHOOSE i \in DOMAIN UpperCase : UpperCase[i] = c]]

\* one character of str.lower()
LowerChar(c) == IF c \in DOMAIN ToLower THEN ToLower[c] ELSE c

\* str.lower()
Lower(s) == [i \in DOMAIN s |-> LowerChar(s[i])]

\* "{}_for_{}".format(fn, x)
Format(fn, x) == fn \o <<"_for_">> \o x

\* getattr(settings, name, default)
getattr_settings(setting, default) ==
    IF setting = Unset THEN default ELSE setting[1]

\* [group.name.lower() for group in Group.objects.all()]
DEFAULT_GROUPS(store) == {Lower(g) : g \in store}

\* values of settings.ROLE_GROUPS
RoleGroupsSettings ==
    {Unset} \cup {<<gs>> : gs \in {x \in SUBSET GroupNames :
                                       Cardinality(x) <= MaxRoleGroups}}

\* handler names a concrete resource may define
RoleHandlerNames ==
    {Format(get_queryset, admin), Format(get_queryset, Admin),
     Format(get_queryset, viewer), Format(perform_update, admin)}
PermissionHandlerNames ==
    {Format(get_queryset, can_edit), Format(get_queryset, can_view),
     Format(perform_update, can_edit)}

-----------------------------------------------------------------------------
(* Handlers and their results *)

specialised(name) == [kind |-> "specialised", name |-> name]
base(fn)          == [kind |-> "base", name |-> fn]

\* one call of a handler with its arguments, and what its body did
Call(handler, args, behaviour) ==
    [handler |-> handler, args |-> args, result |-> behaviour]

\* what a call gives its caller: the handler's return value, or its error
\* (a handler's return value is written as the handler and its arguments)
ResultOf(call) ==
    IF call.result = "return"
    THEN [kind |-> "return", error |-> "", handler |-> call.handler,
          args |-> call.args]
    ELSE [kind |-> "raise", error |-> call.result, handler |-> call.handler,
          args |-> call.args]

NoHandler == [kind |-> "none", name |-> <<>>]
NoOutcome == [kind |-> "none", error |-> "", handler |-> NoHandler,
              args |-> <<>>]
NoRole    == [status |-> "none", role |-> <<>>]
NoRequest == [dispatcher |-> "none", op |-> <<>>, args |-> <<>>,
              role |-> NoRole]

\* getattr(super(...), fn)(*args, **kwargs): the base implementation, which
\* the host's resource type defines for every registered operation; what it
\* returns or raises is what the caller gets
fallback(fn, args, calls, bb) ==
    LET c == Call(base(fn), args, bb)
    IN  [invoked |-> Append(calls, c), outcome |-> ResultOf(c)]

\* try: return getattr(self, name)(*args, **kwargs)
\* except (AttributeError, RoleError): the base implementation.
\* Format(fn, x) holds the token "_for_", which no operation name does, so
\* the lookup finds the name among the resource's own handlers or not at all.
try_specialised(fn, name, args, sb, bb) ==
    IF name \notin attrs
    THEN fallback(fn, args, <<>>, bb)          \* getattr: AttributeError
    ELSE LET c == Call(specialised(name), args, sb)
         IN  IF sb \in {"AttributeError", "RoleError"}
             THEN fallback(fn, args, <<c>>, bb) \* caught by the same except
             ELSE [invoked |-> <<c>>, outcome |-> ResultOf(c)]

\* setattr(type, name, value) on a type's namespace
setattr(dict, name, value) ==
    [n \in DOMAIN dict \cup {name} |-> IF n = name THEN value ELSE dict[n]]

-----------------------------------------------------------------------------
(* RoleViewSetMixin *)

\* set.intersection_update(other), were it called instead: the receiver itself
\* is cut down
set_intersection_update(self, other) ==
    [result |-> self \cap other, self |-> self \cap other]

\* set.intersection(other): a new set; the receiver is left as it was
set_intersection(self, other) ==
    [result |-> self \cap other, self |-> self]

\* _get_role, were it to keep the role it resolved for the request before
_get_role_cached(groups) ==
    LET user_role == _role_groups \cap {Lower(g) : g \in groups}
    IN  IF last_role.status = "role"
        THEN [raised |-> FALSE, error |-> "", role |-> last_role.role,
              role_groups |-> _role_groups]
        ELSE IF Cardinality(user_role) # 1
        THEN [raised |-> TRUE, error |-> "RoleError", role |-> <<>>,
              role_groups |-> _role_groups]
        ELSE [raised |-> FALSE, error |-> "",
              role |-> CHOOSE r \in user_role : TRUE,
              role_groups |-> _role_groups]

\* _get_role(user): the role, or RoleError; role_groups is the class
\* attribute _role_groups once the call is over
_get_role(groups) ==
    LET lowered   == {Lower(g) : g \in groups}
        inter     == set_intersection(_role_groups, lowered)
        user_role == inter.result
    IN  IF Cardinality(user_role) < 1
        THEN [raised |-> TRUE, error |-> "RoleError: no role group",
              role |-> <<>>, role_groups |-> inter.self]
        ELSE IF Cardinality(user_role) > 1
        THEN [raised |-> TRUE, error |-> "RoleError: multiple role groups",
              role |-> <<>>, role_groups |-> inter.self]
        ELSE [raised |-> FALSE, error |-> "",
              role |-> CHOOSE r \in user_role : TRUE,
              role_groups |-> inter.self]

\* _call_role_fn(fn, *args, **kwargs)
_call_role_fn(fn, args, sb, bb) ==
    LET r == _get_role(user_groups)
        d == IF r.raised
             THEN fallback(fn, args, <<>>, bb)      \* RoleError, caught
             ELSE try_specialised(fn, Format(fn, r.role), args, sb, bb)
    IN  [invoked |-> d.invoked, outcome |-> d.outcome, role |-> r]

\* register_fn(fn): setattr(RoleViewSetMixin, fn, inner), inner closing
\* over fn
register_fn(dict, fn) == setattr(dict, fn, [fn |-> fn])

\* for fn in RoleViewSetMixin._viewset_method_registry: register_fn(fn)
RECURSIVE register_all(_, _)
register_all(dict, fns) ==
    IF fns = {} THEN dict
    ELSE LET fn == CHOOSE f \in fns : TRUE
         IN  register_all(register_fn(dict, fn), fns \ {fn})

\* a request invokes a registered operation on a RoleViewSetMixin resource
RoleDispatch ==
    /\ pc = "idle"
    /\ \E op \in DOMAIN role_dict, args \in Args, sb, bb \in Behaviours :
         LET d == _call_role_fn(role_dict[op].fn, args, sb, bb)
         IN  /\ request' = [dispatcher |-> "role", op |-> op, args |-> args,
                            role |-> [status |-> IF d.role.raised
                                                 THEN "RoleError" ELSE "role",
                                      role |-> d.role.role]]
             /\ invoked' = d.invoked
             /\ outcome' = d.outcome
             /\ _role_groups' = d.role.role_groups
    /\ pc' = "returned"
    /\ UNCHANGED <<_viewset_method_registry, role_dict, _permissions,
                   mixin_dict, attrs, user_groups, user_perms, ninits,
                   last_role>>

\* the host framework takes the result; the request is over
Respond ==
    /\ pc = "returned"
    /\ pc' = "idle"
    /\ request' = NoRequest
    /\ invoked' = <<>>
    /\ outcome' = NoOutcome
    /\ last_role' = request.role
    /\ UNCHANGED <<_viewset_method_registry, _role_groups, role_dict,
                   _permissions, mixin_dict, attrs, user_groups, user_perms,
                   ninits>>

\* the identity store changes the caller's group memberships
SetGroups ==
    /\ pc = "idle"
    /\ \E gs \in SUBSET GroupNames :
         /\ Cardinality(gs) <= MaxUserGroups
         /\ gs # user_groups
         /\ user_groups' = gs
    /\ UNCHANGED <<_viewset_method_registry, _role_groups, role_dict,
                   _permissions, mixin_dict, attrs, user_perms, ninits, pc,
                   request, invoked, outcome, last_role>>

\* set(getattr(settings, "ROLE_GROUPS", DEFAULT_GROUPS)), over the groups
\* the identity store may hold at startup and the values of the setting
RoleGroupsAtStartup ==
    {getattr_settings(cfg, DEFAULT_GROUPS(store)) :
        store \in {x \in SUBSET GroupNames : Cardinality(x) <= MaxRoleGroups},
        cfg \in RoleGroupsSettings}

\* module import with a RoleViewSetMixin resource class defined
InitRole ==
    /\ \E reg \in RegistrySettings :
         _viewset_method_registry = getattr_settings(reg, DEFAULT_REGISTRY)
    /\ _role_groups \in RoleGroupsAtStartup
    /\ role_dict = register_all(<<>>, _viewset_method_registry)
    /\ attrs \in SUBSET RoleHandlerNames
    /\ \E gs \in SUBSET GroupNames :
         Cardinality(gs) <= MaxUserGroups /\ user_groups = gs
    /\ _permissions = <<>>
    /\ mixin_dict = <<>>
    /\ user_perms = {}
    /\ ninits = 0
    /\ pc = "idle"
    /\ request = NoRequest
    /\ invoked = <<>>
    /\ outcome = NoOutcome
    /\ last_role = NoRole

NextRole == RoleDispatch \/ Respond \/ SetGroups

SpecRole == InitRole /\ [][NextRole]_vars

-----------------------------------------------------------------------------
(* PermissionViewSetMixin *)

\* [permission.codename.lower() for permission in Permission.objects.all()]
DEFAULT_PERMISSIONS(store) == [i \in DOMAIN store |-> Lower(store[i])]

\* register_permission_fn, were the wrapper set under the qualified name
register_permission_fn_qualified(dict, permission, fn) ==
    setattr(dict, Format(fn, permission),
            [fn |-> fn, permission |-> permission])

\* register_permission_fn, were a name once bound not bound again
register_permission_fn_once(dict, permission, fn) ==
    IF fn \in DOMAIN dict
    THEN dict
    ELSE setattr(dict, fn, [fn |-> fn, permission |-> permission])

\* register_permission_fn(permission, fn):
\* setattr(PermissionViewSetMixin, fn, inner), inner closing over both
register_permission_fn(dict, permission, fn) ==
    setattr(dict, fn, [fn |-> fn, permission |-> permission])

\* for fn in self._viewset_method_registry:
\*     register_permission_fn(permission, fn)
RECURSIVE register_permission(_, _, _)
register_permission(dict, permission, fns) ==
    IF fns = {} THEN dict
    ELSE LET fn == CHOOSE f \in fns : TRUE
         IN  register_permission(register_permission_fn(dict, permission, fn),
                                 permission, fns \ {fn})

\* for permission in self._permissions: ..., from the i-th entry on
RECURSIVE register_permissions(_, _)
register_permissions(dict, i) ==
    IF i > Len(_permissions) THEN dict
    ELSE register_permissions(
             register_permission(dict, _permissions[i],
                                 _viewset_method_registry), i + 1)

\* PermissionViewSetMixin.__init__: an instance is constructed
__init__ ==
    /\ pc = "idle"
    /\ ninits < MaxInits
    /\ mixin_dict' = register_permissions(mixin_dict, 1)
    /\ ninits' = ninits + 1
    /\ UNCHANGED <<_viewset_method_registry, _role_groups, role_dict,
                   _permissions, attrs, user_groups, user_perms, pc, request,
                   invoked, outcome, last_role>>

\* _call_permission_fn(fn, permission, *args, **kwargs)
_call_permission_fn(fn, permission, args, sb, bb) ==
    IF permission \notin user_perms               \* not has_perm(permission)
    THEN fallback(fn, args, <<>>, bb)             \* RoleError, caught
    ELSE try_specialised(fn, Format(fn, permission), args, sb, bb)

\* instance.op(*args): the wrapper the type holds under the name op, or,
\* the type holding none, the next class of the MRO: the base implementation
call_operation(op, args, sb, bb) ==
    IF op \in DOMAIN mixin_dict
    THEN _call_permission_fn(mixin_dict[op].fn, mixin_dict[op].permission,
                             args, sb, bb)
    ELSE fallback(op, args, <<>>, bb)

\* a request invokes a registered operation on a constructed
\* PermissionViewSetMixin resource
PermissionDispatch ==
    /\ pc = "idle"
    /\ ninits >= 1
    /\ \E op \in _viewset_method_registry, args \in Args,
          sb, bb \in Behaviours :
         LET d == call_operation(op, args, sb, bb)
         IN  /\ request' = [dispatcher |-> "permission", op |-> op,
                            args |-> args, role |-> NoRole]
             /\ invoked' = d.invoked
             /\ outcome' = d.outcome
    /\ pc' = "returned"
    /\ UNCHANGED <<_viewset_method_registry, _role_groups, role_dict,
                   _permissions, mixin_dict, attrs, user_groups, user_perms,
                   ninits, last_role>>

\* the identity store grants or revokes the caller's permissions
SetPerms ==
    /\ pc = "idle"
    /\ \E ps \in SUBSET PermissionNames :
         /\ ps # user_perms
         /\ user_perms' = ps
    /\ UNCHANGED <<_viewset_method_registry, _role_groups, role_dict,
                   _permissions, mixin_dict, attrs, user_groups, ninits, pc,
                   request, invoked, outcome, last_role>>

\* the permission rows of the identity store at startup, in query order
PermissionStores ==
    UNION {[1..n -> PermissionNames] : n \in 0..MaxPermissions}

\* module import with a PermissionViewSetMixin resource class defined
InitPerm ==
    /\ \E reg \in RegistrySettings :
         _viewset_method_registry = getattr_settings(reg, DEFAULT_REGISTRY)
    /\ \E store \in PermissionStores :
         _permissions = DEFAULT_PERMISSIONS(store)
    /\ mixin_dict = <<>>
    /\ attrs \in SUBSET PermissionHandlerNames
    /\ user_perms \in SUBSET PermissionNames
    /\ ninits = 0
    /\ _role_groups = {}
    /\ role_dict = <<>>
    /\ user_groups = {}
    /\ pc = "idle"
    /\ request = NoRequest
    /\ invoked = <<>>
    /\ outcome = NoOutcome
    /\ last_role = NoRole

NextPerm == __init__ \/ PermissionDispatch \/ Respond \/ SetPerms

SpecPerm == InitPerm /\ [][NextPerm]_vars

-----------------------------------------------------------------------------
(* What the properties speak of *)

\* a request to dispatcher d has run and its result is not yet taken
Returned(d) == pc = "returned" /\ request.dispatcher = d

\* the first handler called is h, with the request's arguments
FirstCalled(h) ==
    /\ Len(invoked) >= 1
    /\ invoked[1].handler = h
    /\ invoked[1].args = request.args

\* the base implementation of the request's operation was called, with the
\* request's arguments, nothing else was, and the caller got its result
OnlyBase ==
    /\ Len(invoked) = 1
    /\ FirstCalled(base(request.op))
    /\ outcome = ResultOf(invoked[1])

\* two names equal up to letter case
SameUpToCase(a, b) == Lower(a) = Lower(b)

\* the configured role groups the caller belongs to, names compared
\* case-insensitively
RolesOf(groups) ==
    {r \in _role_groups : \E g \in groups : SameUpToCase(g, r)}

\* the roles among them, a role being a name up to letter case
RoleClasses(groups) == {Lower(r) : r \in RolesOf(groups)}

\* the caller's groups that are configured role groups, likewise
RoleGroupsOf(groups) ==
    {g \in groups : \E r \in _role_groups : SameUpToCase(g, r)}

\* the entries of the permission catalog
Catalog == {_permissions[i] : i \in DOMAIN _permissions}

-----------------------------------------------------------------------------
(* RoleViewSetMixin: properties *)

\* C1: a caller in exactly one configured role group r who invokes a
\* registered operation op has <op>_for_<r> called with the original
\* arguments and gets its result when the resource defines it; otherwise the
\* base op is called and the caller gets its result.
C1_RoleDispatch ==
    Returned("role") /\ Cardinality(RoleClasses(user_groups)) = 1 =>
        LET names == {Format(request.op, r) : r \in RolesOf(user_groups)}
        IN  IF names \cap attrs # {}
            THEN \E name \in names \cap attrs :
                    /\ FirstCalled(specialised(name))
                    /\ invoked[1].result = "return" =>
                           outcome = ResultOf(invoked[1])
            ELSE OnlyBase

\* C1 where every configured role name is lower-case, as the default
\* catalog's names are
C1_RoleDispatchLowerCaseRoles ==
    (\A r \in _role_groups : Lower(r) = r) => C1_RoleDispatch

\* C2: a caller in no configured role group, or in two or more, always has
\* the base op called and gets its result, whatever <op>_for_<role> handlers
\* exist; the RoleError of the resolution does not reach the caller.
C2_AmbiguousFallsBack ==
    Returned("role") /\ Cardinality(RoleClasses(user_groups)) # 1 => OnlyBase

\* C2 where every configured role name is lower-case
C2_AmbiguousFallsBackLowerCaseRoles ==
    (\A r \in _role_groups : Lower(r) = r) => C2_AmbiguousFallsBack

\* C6: group names are compared with the configured role groups
\* case-insensitively: a caller in exactly one group whose name equals a
\* configured role name up to letter case resolves to that role and is
\* dispatched to its specialised handler.
C6_CaseInsensitive ==
    /\ Returned("role")
    /\ Cardinality(RoleGroupsOf(user_groups)) = 1
    /\ Cardinality(RolesOf(user_groups)) = 1
    => LET r == CHOOSE x \in RolesOf(user_groups) : TRUE
       IN  /\ request.role = [status |-> "role", role |-> r]
           /\ Format(request.op, r) \in attrs =>
                  FirstCalled(specialised(Format(request.op, r)))

\* C5: an error raised by a handler the dispatch called, whatever its type,
\* is what the caller of the operation gets; it is never turned into a
\* fallback result.
C5_HandlerErrorsPropagate ==
    pc = "returned" =>
        \A i \in DOMAIN invoked :
            invoked[i].result # "return" => outcome = ResultOf(invoked[i])

\* the handler the request's operation is dispatched to, from the caller's
\* groups as they are now
HandlerFor(groups) ==
    LET m == {r \in _role_groups : \E g \in groups : Lower(g) = r}
    IN  IF Cardinality(m) = 1
           /\ \A r \in m : Format(request.op, r) \in attrs
        THEN specialised(Format(request.op, CHOOSE r \in m : TRUE))
        ELSE base(request.op)

\* C8: nothing is cached between calls: each invocation is dispatched by the
\* caller's groups at the time of that invocation alone, whatever role (or
\* failure) the invocation before resolved.
C8_NoCaching ==
    Returned("role") =>
        /\ FirstCalled(HandlerFor(user_groups))
        /\ request.role.status = "role" <=>
               Cardinality({g \in user_groups : Lower(g) \in _role_groups}) >= 1
               /\ \A g, h \in user_groups :
                      Lower(g) \in _role_groups /\ Lower(h) \in _role_groups
                          => Lower(g) = Lower(h)
        /\ request.role.status = "role" =>
               \E g \in user_groups : Lower(g) = request.role.role

\* C8's case: the caller's groups changed between two invocations, the one
\* before resolved one role and this one another, and went to its handler
C8_Witness ==
    /\ Returned("role")
    /\ last_role.status = "role"
    /\ request.role.status = "role"
    /\ last_role.role # request.role.role
    /\ invoked[1].handler.kind = "specialised"

\* C9: the configured role-group set and the operation registry are left
\* unchanged by every invocation and role resolution, successful or failed.
C9_ConfigurationUnchanged ==
    [][/\ _role_groups' = _role_groups
       /\ _viewset_method_registry' = _viewset_method_registry
       /\ role_dict' = role_dict]_vars

\* C9's case: a resolution succeeded (its role popped from the computed
\* intersection) with other configured roles beside it
C9_Witness ==
    /\ Returned("role")
    /\ request.role.status = "role"
    /\ request.role.role \in _role_groups
    /\ Cardinality(_role_groups) >= 2

-----------------------------------------------------------------------------
(* PermissionViewSetMixin: properties *)

\* the catalog permissions the caller holds whose handler for the request's
\* operation the resource defines
Overridden ==
    {p \in Catalog : p \in user_perms /\ Format(request.op, p) \in attrs}

\* C3: after initialization, for every catalog permission P and registered
\* op, a caller holding P gets the result of <op>_for_P when the resource
\* defines it and that of the base op otherwise; a caller lacking P gets the
\* result of the base op.
C3_PermissionDispatch ==
    Returned("permission") =>
        IF Overridden = {}
        THEN OnlyBase
        ELSE \E p \in Overridden :
                /\ FirstCalled(specialised(Format(request.op, p)))
                /\ invoked[1].result = "return" =>
                       outcome = ResultOf(invoked[1])

\* C3 where the catalog holds one permission
C3_PermissionDispatchOnePermission ==
    Cardinality(Catalog) <= 1 => C3_PermissionDispatch

\* C4 as stated: once initialization has run, the dispatcher type has a
\* synthesized method named <op>_for_<P> for every catalog permission P and
\* registered op.
C4_SynthesizedForEveryPair ==
    ninits >= 1 =>
        \A p \in Catalog, op \in _viewset_method_registry :
            Format(op, p) \in DOMAIN mixin_dict

\* C4 as amended: once initialization has run with a non-empty catalog, the
\* methods synthesized on the dispatcher type are exactly one per registered
\* operation, named <op>, each the wrapper of op for a catalog permission;
\* none is named <op>_for_<P>.
C4_SynthesizedPerOperation ==
    ninits >= 1 =>
        /\ DOMAIN mixin_dict =
               IF Catalog = {} THEN {} ELSE _viewset_method_registry
        /\ \A op \in DOMAIN mixin_dict :
               /\ mixin_dict[op].fn = op
               /\ mixin_dict[op].permission \in Catalog
        /\ \A p \in Catalog, op \in _viewset_method_registry :
               Format(op, p) \notin DOMAIN mixin_dict

\* C4's case: initialization has run with two different permissions in the
\* catalog
C4_Witness ==
    /\ ninits >= 1
    /\ Cardinality(Catalog) >= 2
    /\ Cardinality(_viewset_method_registry) >= 2
    /\ DOMAIN mixin_dict # {}

\* C7: an invocation calls exactly one handler: when the specialised handler
\* was called the base implementation is not, and the base implementation is
\* called at most once.
C7_ExactlyOneHandler ==
    pc = "returned" =>
        /\ (\E i \in DOMAIN invoked : invoked[i].handler.kind = "specialised")
               => \A j \in DOMAIN invoked : invoked[j].handler.kind # "base"
        /\ Cardinality({j \in DOMAIN invoked :
                            invoked[j].handler.kind = "base"}) <= 1

\* C10: each registration rebinds the attribute op, so after one or more
\* constructions every registered op is bound to the wrapper that checks the
\* last permission of the catalog, and further constructions leave the
\* binding as it is.
C10_LastPermissionWins ==
    [][/\ ninits' >= 1 /\ Len(_permissions) >= 1 =>
              \A op \in _viewset_method_registry :
                  /\ op \in DOMAIN mixin_dict'
                  /\ mixin_dict'[op] =
                         [fn |-> op,
                          permission |-> _permissions[Len(_permissions)]]
       /\ ninits >= 1 => mixin_dict' = mixin_dict]_vars

\* C10's case: a second instance was constructed with a catalog whose first
\* and last permissions differ
C10_Witness ==
    /\ ninits >= 2
    /\ Len(_permissions) >= 2
    /\ _permissions[1] # _permissions[Len(_permissions)]
    /\ DOMAIN mixin_dict = _viewset_method_registry

=============================================================================
